---- MODULE Spec2Model ----
(***************************************************************************)
(* Solaar onboard-profile UI: the profile editor dialog                    *)
(* (lib/solaar/ui/profile_editor.py) and the export / import / edit /      *)
(* unpair actions (lib/solaar/ui/action.py), as a state machine.           *)
(*                                                                         *)
(* Threads: "main" is the GTK main loop, "worker" is the task runner that  *)
(* common.ui_async hands a function to.  A modal dialog.run() is one       *)
(* step: the dialog is shown and answered inside the handler that opens    *)
(* it.  Strings that matter by their length (profile names) are sequences  *)
(* of characters.  Python's None is the value None below.                  *)
(***************************************************************************)
EXTENDS Integers, Sequences, FiniteSets, TLC

\* ------------------------------------------------------------ bounds
\* user edits of a field per run
MaxEdits == 2
\* activations of Save per run
MaxSaves == 1
\* activations of each menu action per run
MaxActivations == 1
\* discard prompts shown per run
MaxPrompts == 1
\* activations of menu actions per run, all actions together
MaxMenuActions == 2

\* ------------------------------------------------- program constants
None == -1
NameMaxLength == 24
NumResolutions == 5
DpiLower == 100
DpiUpper == 25600
DpiFallback == 800
OnboardProfilesVersion == 3

Indices == 0..(NumResolutions - 1)

\* ------------------------------------------------------------- values
\* a string of n characters c
Str(c, n) == [i \in 1..n |-> c]

\* the records a device can hold (hidpp20.OnboardProfile, the fields the UI uses)
ProfileA ==
    [name |-> Str("a", 3), enabled |-> 1,
     resolutions |-> <<400, 800, 1600, 3200, 6400>>,
     resolution_default_index |-> 1, resolution_shift_index |-> 2]

\* an unused slot as the device reports it: zeroed DPI, 0xFF indices
ProfileB ==
    [name |-> Str("b", 24), enabled |-> 0,
     resolutions |-> <<0, 800, 800, 800, 65535>>,
     resolution_default_index |-> 255, resolution_shift_index |-> 0]

\* device.profiles.profiles: profile number -> record
ProfileSets ==
    { <<>>, (1 :> ProfileA @@ 2 :> ProfileB) }

\* what the user can type or paste into the name entry
NameInputs == { Str("c", NameMaxLength + 1) }

\* what the user can type into a DPI spinner
DpiInputs == { 30000 }

\* the row of the DPI table the user edits and clicks in: the last (the
\* first is the row the radio groups start on, the others come from loads)
IndexInputs == { NumResolutions - 1 }

\* ----------------------------------------------------------- files
DeviceName == "G502"

\* an attribute or key that is not there
Absent == "<absent>"

\* what yaml.safe_load returns for a file: an OnboardProfiles object, or a
\* plain mapping (a file without the object's tag), with the fields it holds
FileObjects ==
    [type : {"OnboardProfiles"},
     version : {None, OnboardProfilesVersion - 1, OnboardProfilesVersion},
     name : {DeviceName, "MX Master", Absent},
     profiles : {(1 :> ProfileA)}]
    \cup
    [type : {"dict"},
     version : {OnboardProfilesVersion - 1, OnboardProfilesVersion},
     name : {DeviceName},
     profiles : {(1 :> ProfileA)}]

\* a file that cannot be opened or parsed
NoFile == [readable |-> FALSE, obj |-> [type |-> "none", version |-> None,
                                        name |-> Absent, profiles |-> <<>>]]

Files == {NoFile} \cup [readable : {TRUE}, obj : FileObjects]

\* the menu actions of action.py that take a device
MenuActions == {"edit", "export", "import", "unpair"}

VARIABLES
    online,              \* device.online
    hasProfiles,         \* device.profiles is not None
    paired,              \* device.number is a key of device.receiver
    profiles,            \* device.profiles.profiles
    dialog,              \* the editor's Gtk.Dialog: "none", "open", "destroyed"
    current_profile_num, \* self.current_profile_num
    modified,            \* self.modified
    ignore_changes,      \* self._ignore_changes
    save_sensitive,      \* self.save_button sensitivity
    form,                \* the edit panel's widgets
    profile_store,       \* self.profile_store rows
    snapshot,            \* the form as it was after the last load or save
    file,                \* the file the chooser names: readable or not, and its content
    taskQueue,           \* functions handed to common.ui_async, not yet run
    idleQueue,           \* callbacks handed to GLib.idle_add, not yet run
    msgs,                \* message dialogs shown so far
    writes,              \* profiles.write(device) calls made so far
    prompts,             \* discard prompts shown so far
    warnings,            \* logger.warning calls of the import
    closes,              \* destroy() calls on the editor dialog so far
    choosers,            \* file choosers and unpair questions run so far
    accesses,            \* accesses to the collection and to the file so far
    exported,            \* the collection as it was when last dumped to the file
    activations,         \* menu actions activated so far, by action
    edits,               \* user edits made so far
    saves                \* Save activations so far

vars ==
    <<online, hasProfiles, profiles, dialog, current_profile_num, modified,
      ignore_changes, save_sensitive, form, profile_store, snapshot, file,
      taskQueue, idleQueue, msgs, writes, prompts, warnings, closes, activations,
      edits, saves, paired, choosers, accesses, exported>>

deviceVars == <<online, hasProfiles, paired, file>>
editorVars ==
    <<dialog, current_profile_num, modified, ignore_changes, save_sensitive,
      form, profile_store, snapshot>>
queueVars == <<taskQueue, idleQueue>>
logVars == <<msgs, writes, prompts, warnings, closes>>
traceVars == <<choosers, accesses, exported>>
countVars == <<activations, edits, saves>>

\* ------------------------------------------------------------ widgets
\* Gtk.Entry with set_max_length(24): text beyond the limit is cut off
EntrySetText(text) ==
    IF Len(text) > NameMaxLength THEN SubSeq(text, 1, NameMaxLength) ELSE text

\* mutant of SpinSetValue: the spinner takes any value
SpinSetValueUnclamped(v) == v

\* Gtk.SpinButton.new_with_range(100, 25600, 50): the adjustment clamps
SpinSetValue(v) ==
    IF v < DpiLower THEN DpiLower ELSE IF v > DpiUpper THEN DpiUpper ELSE v

\* a group of radio buttons with button i (0-based) made the active one
RadioSetActive(i) == [j \in 1..NumResolutions |-> j = i + 1]

\* the widgets as _create_edit_panel builds them
NewForm ==
    [name_entry |-> Str("c", 0),
     enabled_switch |-> FALSE,
     dpi_spinners |-> [i \in 1..NumResolutions |-> DpiLower],
     default_radios |-> RadioSetActive(0),
     shift_radios |-> RadioSetActive(0)]

\* enabled_str of a list row
EnabledStr(profile) == IF profile.enabled # 0 THEN "CHECK" ELSE ""

Row(num, profile) ==
    [num |-> num, name |-> profile.name, enabled_str |-> EnabledStr(profile)]

RECURSIVE SortedNums(_)
SortedNums(S) ==
    IF S = {} THEN <<>>
    ELSE LET m == CHOOSE x \in S : \A y \in S : x <= y
         IN <<m>> \o SortedNums(S \ {m})

\* ------------------------------------------------- change tracking
\* mutant of OnFieldChanged: the flag is set, the save button is left alone
OnFieldChangedNoEnable(ign, st) ==
    IF ign = 0
    THEN [modified |-> TRUE, save_sensitive |-> st.save_sensitive]
    ELSE st

\* mutant of OnFieldChanged: the save button is enabled, the flag is left alone
OnFieldChangedNoFlag(ign, st) ==
    IF ign = 0
    THEN [modified |-> st.modified, save_sensitive |-> TRUE]
    ELSE st

\* _on_field_changed, on the pair (modified, save button sensitivity)
OnFieldChanged(ign, st) ==
    IF ign = 0 THEN [modified |-> TRUE, save_sensitive |-> TRUE] ELSE st

\* the handler run once for each signal emitted
RECURSIVE Emit(_, _, _)
Emit(n, ign, st) ==
    IF n = 0 THEN st ELSE Emit(n - 1, ign, OnFieldChanged(ign, st))

\* mutant of BeginLoad: the guard counter is not raised
BeginLoadNoCount(ign) == ign

\* self._ignore_changes += 1 ... finally: self._ignore_changes -= 1
BeginLoad(ign) == ign + 1
EndLoad(ign) == ign - 1

\* the widgets after _on_profile_selected has populated them from a record
Populate(f, profile) ==
    [name_entry |-> EntrySetText(profile.name),
     enabled_switch |-> (profile.enabled # 0),
     dpi_spinners |->
        [i \in 1..NumResolutions |->
            IF i <= Len(profile.resolutions)
            THEN SpinSetValue(profile.resolutions[i])
            ELSE SpinSetValue(DpiFallback)],
     default_radios |->
        IF 0 <= profile.resolution_default_index
           /\ profile.resolution_default_index < NumResolutions
        THEN RadioSetActive(profile.resolution_default_index)
        ELSE f.default_radios,
     shift_radios |->
        IF 0 <= profile.resolution_shift_index
           /\ profile.resolution_shift_index < NumResolutions
        THEN RadioSetActive(profile.resolution_shift_index)
        ELSE f.shift_radios]

\* how many widgets emit their change signal when the form goes from f to g
Signals(f, g) ==
    (IF f.name_entry # g.name_entry THEN 1 ELSE 0)
    + (IF f.enabled_switch # g.enabled_switch THEN 1 ELSE 0)
    + Cardinality({i \in 1..NumResolutions : f.dpi_spinners[i] # g.dpi_spinners[i]})
    + Cardinality({i \in 1..NumResolutions : f.default_radios[i] # g.default_radios[i]})
    + Cardinality({i \in 1..NumResolutions : f.shift_radios[i] # g.shift_radios[i]})

\* a selection that also clears the change flag and disables the save button
SelectedResets(num, f, ign, st) ==
    LET g == Populate(f, profiles[num])
        loading == BeginLoad(ign)
    IN [current_profile_num |-> num,
        form |-> g,
        st |-> [modified |-> FALSE, save_sensitive |-> FALSE],
        ignore_changes |-> EndLoad(loading)]

\* _on_profile_selected for the row of profile num: the editor fields after it
Selected(num, f, ign, st) ==
    LET g == Populate(f, profiles[num])
        loading == BeginLoad(ign)
    IN [current_profile_num |-> num,
        form |-> g,
        st |-> Emit(Signals(f, g), loading, st),
        ignore_changes |-> EndLoad(loading)]

Init ==
    /\ online \in BOOLEAN
    /\ hasProfiles \in BOOLEAN
    /\ profiles \in ProfileSets
    /\ dialog = "none"
    /\ current_profile_num = None
    /\ modified = FALSE
    /\ ignore_changes = 0
    /\ save_sensitive = FALSE
    /\ form = NewForm
    /\ profile_store = <<>>
    /\ snapshot = NewForm
    /\ file \in Files
    /\ taskQueue = <<>>
    /\ idleQueue = <<>>
    /\ msgs = <<>>
    /\ writes = <<>>
    /\ prompts = 0
    /\ warnings = <<>>
    /\ closes = <<>>
    /\ activations = [a \in MenuActions |-> 0]
    /\ edits = 0
    /\ saves = 0
    /\ paired = TRUE
    /\ choosers = <<>>
    /\ accesses = {}
    /\ exported = [done |-> FALSE, profiles |-> <<>>]


\* ----------------------------------------------------------- messages
\* "%d" % n for the small numbers of the model
DecStr(n) ==
    CASE n = 0 -> "0" [] n = 1 -> "1" [] n = 2 -> "2" [] n = 3 -> "3"
      [] n = 4 -> "4" [] OTHER -> "many"

\* "%s" % v for a version read from a file
StrOf(v) == IF v = None THEN "None" ELSE DecStr(v)

Msg(title, kind, text) == [title |-> title, kind |-> kind, text |-> text]
NoMsg == Msg("", "", <<>>)
Task(t, m) == [task |-> t, msg |-> m]

\* a message dialog run and dismissed on thread th
Shown(m, th) ==
    [title |-> m.title, kind |-> m.kind, text |-> m.text, thread |-> th]

\* common.ui_async(function): the function is queued for the task runner
UiAsync(q, t) == Append(q, t)

\* several functions handed over one after the other
RECURSIVE UiAsyncAll(_, _)
UiAsyncAll(q, ts) ==
    IF ts = <<>> THEN q ELSE UiAsyncAll(UiAsync(q, Head(ts)), Tail(ts))

\* what profiles.write(device) can do: return a sector count, or raise
WriteOutcomes ==
    { [raised |-> FALSE, written |-> 2], [raised |-> TRUE, written |-> 0] }

\* one call: who made it, on which thread, on which collection object, and
\* whether it raised
WriteCall(by, th, out, obj) ==
    [by |-> by, thread |-> th, raised |-> out.raised, obj |-> obj]

\* the menu offers action a: the device is still paired (and the run's
\* bounds leave room for the activation)
MayActivate(a) ==
    /\ paired
    /\ activations[a] < MaxActivations
    /\ activations["edit"] + activations["export"] + activations["import"]
         + activations["unpair"] < MaxMenuActions

\* one kind of access: to what ("profiles", "file"), how, by which
\* operation, on which thread
Access(what, op, by, th) == [what |-> what, op |-> op, by |-> by, thread |-> th]

\* ------------------------------------------------- opening the editor
\* mutant of NewEditor: the list is filled but no row is selected
NewEditorNoSelection ==
    LET nums == SortedNums(DOMAIN profiles)
    IN [current_profile_num |-> None,
        modified |-> FALSE,
        save_sensitive |-> FALSE,
        ignore_changes |-> 0,
        form |-> NewForm,
        profile_store |-> [i \in 1..Len(nums) |-> Row(nums[i], profiles[nums[i]])]]

\* ProfileEditorDialog.__init__ with _build_ui and _populate_profile_list
NewEditor ==
    LET nums == SortedNums(DOMAIN profiles)
        store == [i \in 1..Len(nums) |-> Row(nums[i], profiles[nums[i]])]
        st0 == [modified |-> FALSE, save_sensitive |-> FALSE]
    IN IF hasProfiles /\ DOMAIN profiles # {}
       THEN LET sel == Selected(nums[1], NewForm, 0, st0)
            IN [current_profile_num |-> sel.current_profile_num,
                modified |-> sel.st.modified,
                save_sensitive |-> sel.st.save_sensitive,
                ignore_changes |-> sel.ignore_changes,
                form |-> sel.form,
                profile_store |-> store]
       ELSE [current_profile_num |-> None,
             modified |-> FALSE,
             save_sensitive |-> FALSE,
             ignore_changes |-> 0,
             form |-> NewForm,
             profile_store |-> <<>>]

\* action.edit_profiles
EditProfiles ==
    /\ dialog = "none"
    /\ MayActivate("edit")
    /\ activations' = [activations EXCEPT !["edit"] = @ + 1]
    /\ IF ~online
       THEN /\ msgs' = Append(msgs, Shown(Msg("NO_DEVICE", "ERROR", <<DeviceName>>), "main"))
            /\ UNCHANGED editorVars
       ELSE IF ~hasProfiles
       THEN /\ msgs' = Append(msgs, Shown(Msg("No Profiles", "WARNING", <<DeviceName>>), "main"))
            /\ UNCHANGED editorVars
       ELSE LET e == NewEditor
            IN /\ dialog' = "open"
               /\ current_profile_num' = e.current_profile_num
               /\ modified' = e.modified
               /\ save_sensitive' = e.save_sensitive
               /\ ignore_changes' = e.ignore_changes
               /\ form' = e.form
               /\ profile_store' = e.profile_store
               /\ snapshot' = e.form
               /\ UNCHANGED msgs
    /\ accesses' =
         IF online /\ hasProfiles
         THEN accesses \cup {Access("profiles", "read", "edit", "main")}
         ELSE accesses
    /\ UNCHANGED <<deviceVars, profiles, queueVars, writes, prompts, warnings,
                   closes, edits, saves, choosers, exported>>

\* --------------------------------------------------------- user edits
\* a widget of the open dialog changed by the user: its signal runs
\* _on_field_changed
UserEdit(g) ==
    /\ dialog = "open"
    /\ edits < MaxEdits
    /\ g # form
    /\ form' = g
    /\ LET st == OnFieldChanged(ignore_changes,
                    [modified |-> modified, save_sensitive |-> save_sensitive])
       IN /\ modified' = st.modified
          /\ save_sensitive' = st.save_sensitive
    /\ edits' = edits + 1
    /\ UNCHANGED <<deviceVars, profiles, dialog, current_profile_num,
                   ignore_changes, profile_store, snapshot, queueVars,
                   logVars, traceVars, activations, saves>>

EditName == \E t \in NameInputs :
    UserEdit([form EXCEPT !.name_entry = EntrySetText(t)])

ToggleEnabled ==
    UserEdit([form EXCEPT !.enabled_switch = ~form.enabled_switch])

EditDpi == \E i \in IndexInputs, v \in DpiInputs :
    UserEdit([form EXCEPT !.dpi_spinners[i + 1] = SpinSetValue(v)])

ClickDefault == \E i \in IndexInputs :
    UserEdit([form EXCEPT !.default_radios = RadioSetActive(i)])

ClickShift == \E i \in IndexInputs :
    UserEdit([form EXCEPT !.shift_radios = RadioSetActive(i)])

\* the user picks a row of the list (the same one or another): the
\* selection's "changed" signal runs _on_profile_selected
SelectProfile == \E r \in 1..Len(profile_store) :
    /\ dialog = "open"
    /\ LET sel == Selected(profile_store[r].num, form, ignore_changes,
                     [modified |-> modified, save_sensitive |-> save_sensitive])
       IN /\ current_profile_num' = sel.current_profile_num
          /\ form' = sel.form
          /\ snapshot' = sel.form
          /\ modified' = sel.st.modified
          /\ save_sensitive' = sel.st.save_sensitive
          /\ ignore_changes' = sel.ignore_changes
    /\ accesses' = accesses \cup {Access("profiles", "read", "select", "main")}
    /\ UNCHANGED <<deviceVars, profiles, dialog, profile_store, queueVars,
                   logVars, countVars, choosers, exported>>

\* the user unselects the selected row (Ctrl-click): the selection's
\* "changed" signal runs _on_profile_selected, which finds no row and returns
DeselectProfile ==
    /\ dialog = "open"
    /\ profile_store # <<>>
    /\ UNCHANGED vars

\* --------------------------------------------------------------- save
\* the index of the first active radio of a group, None when none is active
FirstActive(radios) ==
    IF \E i \in 1..Len(radios) : radios[i]
    THEN (CHOOSE i \in 1..Len(radios) :
            radios[i] /\ \A j \in 1..(i - 1) : ~radios[j]) - 1
    ELSE None

\* the record of the selected profile after _collect_profile_data
Collected(profile, f) ==
    [name |-> f.name_entry,
     enabled |-> IF f.enabled_switch THEN 1 ELSE 0,
     resolutions |->
        [i \in 1..Len(profile.resolutions) |->
            IF i <= NumResolutions THEN f.dpi_spinners[i]
            ELSE profile.resolutions[i]],
     resolution_default_index |->
        IF FirstActive(f.default_radios) # None
        THEN FirstActive(f.default_radios)
        ELSE profile.resolution_default_index,
     resolution_shift_index |->
        IF FirstActive(f.shift_radios) # None
        THEN FirstActive(f.shift_radios)
        ELSE profile.resolution_shift_index]

\* the list rows after _collect_profile_data: the first row of the profile
\* takes the record's name and enabled mark
StoreUpdated(store, num, profile) ==
    [r \in 1..Len(store) |->
        IF store[r].num = num /\ \A q \in 1..(r - 1) : store[q].num # num
        THEN Row(num, profile)
        ELSE store[r]]

\* mutant of OnSave: _do_save is called where it is defined, not dispatched
OnSaveInline == \E out \in WriteOutcomes :
    /\ dialog = "open"
    /\ save_sensitive
    /\ saves < MaxSaves
    /\ IF current_profile_num = None
       THEN UNCHANGED <<profiles, profile_store, snapshot>>
       ELSE LET rec == Collected(profiles[current_profile_num], form)
            IN /\ profiles' = [profiles EXCEPT ![current_profile_num] = rec]
               /\ profile_store' = StoreUpdated(profile_store, current_profile_num, rec)
               /\ snapshot' = form
    /\ writes' = Append(writes, WriteCall("save", "main", out, "device.profiles"))
    /\ saves' = saves + 1
    /\ UNCHANGED <<deviceVars, dialog, current_profile_num, modified,
                   ignore_changes, save_sensitive, form, queueVars, msgs,
                   prompts, warnings, closes, activations, edits, traceVars>>

\* _on_save, up to and including the dispatch of _do_save
OnSave ==
    /\ dialog = "open"
    /\ save_sensitive
    /\ saves < MaxSaves
    /\ IF current_profile_num = None
       THEN UNCHANGED <<profiles, profile_store, snapshot, accesses>>
       ELSE LET rec == Collected(profiles[current_profile_num], form)
            IN /\ profiles' = [profiles EXCEPT ![current_profile_num] = rec]
               /\ profile_store' = StoreUpdated(profile_store, current_profile_num, rec)
               /\ snapshot' = form
               /\ accesses' = accesses \cup {Access("profiles", "modify", "save", "main")}
    /\ taskQueue' = UiAsync(taskQueue, Task("do_save", NoMsg))
    /\ saves' = saves + 1
    /\ UNCHANGED <<deviceVars, dialog, current_profile_num, modified,
                   ignore_changes, save_sensitive, form, idleQueue, logVars,
                   activations, edits, choosers, exported>>

\* mutant of SaveResultTasks: the dialog is closed after a failed write too
SaveResultTasksCloseAlways(out) ==
    << Task("show_message",
            IF ~out.raised
            THEN Msg("Success", "INFO",
                     <<"Successfully updated profiles on", DeviceName,
                       "Wrote", DecStr(out.written), "sectors">>)
            ELSE Msg("Error", "ERROR",
                     <<"Failed to write profiles to device", "WriteError">>)),
       Task("destroy", NoMsg) >>

\* mutant of SaveResultTasks: a failed write is dispatched again
SaveResultTasksRetry(out) ==
    IF ~out.raised
    THEN << Task("show_message",
                 Msg("Success", "INFO",
                     <<"Successfully updated profiles on", DeviceName,
                       "Wrote", DecStr(out.written), "sectors">>)),
            Task("destroy", NoMsg) >>
    ELSE << Task("do_save", NoMsg) >>

\* what _do_save dispatches once the write has returned or raised: the
\* result message, and on success the closing of the dialog
SaveResultTasks(out) ==
    IF ~out.raised
    THEN << Task("show_message",
                 Msg("Success", "INFO",
                     <<"Successfully updated profiles on", DeviceName,
                       "Wrote", DecStr(out.written), "sectors">>)),
            Task("destroy", NoMsg) >>
    ELSE << Task("show_message",
                 Msg("Error", "ERROR",
                     <<"Failed to write profiles to device", "WriteError">>)) >>

\* _do_save on the task runner: the write, then the dispatch of its result
RunDoSave == \E out \in WriteOutcomes :
    /\ taskQueue # <<>>
    /\ Head(taskQueue).task = "do_save"
    /\ writes' = Append(writes, WriteCall("save", "worker", out, "device.profiles"))
    /\ taskQueue' = UiAsyncAll(Tail(taskQueue), SaveResultTasks(out))
    /\ accesses' = accesses \cup {Access("profiles", "write", "save", "worker")}
    /\ UNCHANGED <<deviceVars, profiles, editorVars, idleQueue, msgs, prompts,
                   warnings, closes, countVars, choosers, exported>>

\* the lambda around self._show_message, run by the task runner
RunShowMessage ==
    /\ taskQueue # <<>>
    /\ Head(taskQueue).task = "show_message"
    /\ msgs' = Append(msgs, Shown(Head(taskQueue).msg, "worker"))
    /\ taskQueue' = Tail(taskQueue)
    /\ UNCHANGED <<deviceVars, profiles, editorVars, idleQueue, writes,
                   prompts, warnings, closes, countVars, traceVars>>

\* the lambda around self.dialog.destroy(), run by the task runner
RunDestroy ==
    /\ taskQueue # <<>>
    /\ Head(taskQueue).task = "destroy"
    /\ dialog' = "destroyed"
    /\ closes' = Append(closes, [by |-> "save", thread |-> "worker"])
    /\ taskQueue' = Tail(taskQueue)
    /\ UNCHANGED <<deviceVars, profiles, current_profile_num, modified,
                   ignore_changes, save_sensitive, form, profile_store,
                   snapshot, idleQueue, msgs, writes, prompts, warnings,
                   countVars, traceVars>>

\* ------------------------------------------------------------- cancel
\* Gtk.ResponseType of the discard prompt: its two buttons, or the prompt
\* closed without a choice
Responses == {"YES", "NO", "DELETE_EVENT"}

\* mutant of Cancelled: the prompt is shown whether or not modified is set
CancelledAlwaysAsks(answer, event) ==
    IF answer # "YES"
    THEN [dialog |-> dialog, prompts |-> prompts + 1, closes |-> closes]
    ELSE [dialog |-> "destroyed",
          prompts |-> prompts + 1,
          closes |-> Append(closes, [by |-> event, thread |-> "main"])]

\* mutant of Cancelled: only the answer No keeps the dialog open
CancelledUnlessNo(answer, event) ==
    IF modified /\ answer = "NO"
    THEN [dialog |-> dialog, prompts |-> prompts + 1, closes |-> closes]
    ELSE [dialog |-> "destroyed",
          prompts |-> IF modified THEN prompts + 1 ELSE prompts,
          closes |-> Append(closes, [by |-> event, thread |-> "main"])]

\* _on_cancel: the dialog, the prompts shown and the destroy() calls after
\* it; event names what ran it (the Cancel button or the delete-event)
Cancelled(answer, event) ==
    IF modified /\ answer # "YES"
    THEN [dialog |-> dialog, prompts |-> prompts + 1, closes |-> closes]
    ELSE [dialog |-> "destroyed",
          prompts |-> IF modified THEN prompts + 1 ELSE prompts,
          closes |-> Append(closes, [by |-> event, thread |-> "main"])]

\* the Cancel button clicked, the discard prompt (when shown) answered
OnCancelWith(answer) ==
    /\ dialog = "open"
    /\ modified => prompts < MaxPrompts
    /\ LET c == Cancelled(answer, "cancel")
       IN /\ dialog' = c.dialog
          /\ prompts' = c.prompts
          /\ closes' = c.closes
    /\ UNCHANGED <<deviceVars, profiles, current_profile_num, modified,
                   ignore_changes, save_sensitive, form, profile_store,
                   snapshot, queueVars, msgs, writes, warnings, countVars,
                   traceVars>>

OnCancel == \E answer \in Responses : OnCancelWith(answer)

\* mutant of OnDeleteReturn: the event is reported as not handled
OnDeleteReturnFalse == FALSE

\* what _on_delete returns: TRUE stops the toolkit's own handling of the
\* delete-event, which would destroy the window
OnDeleteReturn == TRUE

\* the window-close button: _on_delete, then the toolkit's default handler
\* unless the event was handled
OnDeleteWith(answer) ==
    /\ dialog = "open"
    /\ modified => prompts < MaxPrompts
    /\ LET c == Cancelled(answer, "delete")
       IN /\ prompts' = c.prompts
          /\ IF OnDeleteReturn \/ c.dialog = "destroyed"
             THEN /\ dialog' = c.dialog
                  /\ closes' = c.closes
             ELSE /\ dialog' = "destroyed"
                  /\ closes' = Append(c.closes, [by |-> "toolkit", thread |-> "main"])
    /\ UNCHANGED <<deviceVars, profiles, current_profile_num, modified,
                   ignore_changes, save_sensitive, form, profile_store,
                   snapshot, queueVars, msgs, writes, warnings, countVars,
                   traceVars>>

OnDelete == \E answer \in Responses : OnDeleteWith(answer)

\* ------------------------------------------------------ specification
NextEditor ==
    \/ EditProfiles
    \/ EditName
    \/ ToggleEnabled
    \/ EditDpi
    \/ ClickDefault
    \/ ClickShift
    \/ SelectProfile
    \/ DeselectProfile
    \/ OnSave
    \/ RunDoSave
    \/ RunShowMessage
    \/ RunDestroy
    \/ OnCancel
    \/ OnDelete

\* the editor, with the chooser's file left aside
InitEditor == Init /\ file = NoFile

SpecEditor == InitEditor /\ [][NextEditor]_vars

\* ------------------------------------------------- export and import
\* Gtk.ResponseType of the file chooser, and what get_filename() returns
ChooserResponses == {"OK", "CANCEL"}
ChooserFilenames == {"", "profiles.yaml"}

\* getattr(profiles, attr, None) on a loaded object: a mapping's keys are
\* not attributes
GetVersion(obj) ==
    IF obj.type = "OnboardProfiles" THEN obj.version ELSE None
GetName(obj) ==
    IF obj.type = "OnboardProfiles" THEN obj.name ELSE Absent

\* str(e) of the exceptions _do_import can meet
OpenError == <<"IOError">>
FormatError == <<"Invalid profiles file format">>
VersionError(version) ==
    <<"Profile version mismatch. Expected", DecStr(OnboardProfilesVersion),
      "got", StrOf(version)>>
WriteError == <<"WriteError">>

ImportFailed(e) ==
    Msg("Import Failed", "ERROR", <<"Failed to import profiles">> \o e)
ImportSuccessful(written) ==
    Msg("Import Successful", "INFO",
        <<"Successfully imported profiles", "Wrote", DecStr(written),
          "sectors to", DeviceName>>)

\* mutant of Imported: the type check is the only check made
ImportedUnchecked(f, out) ==
    IF ~f.readable
    THEN [msg |-> ImportFailed(OpenError), warned |-> FALSE, wrote |-> FALSE]
    ELSE IF f.obj.type # "OnboardProfiles"
    THEN [msg |-> ImportFailed(FormatError), warned |-> FALSE, wrote |-> FALSE]
    ELSE [msg |-> IF out.raised THEN ImportFailed(WriteError)
                  ELSE ImportSuccessful(out.written),
          warned |-> GetName(f.obj) # DeviceName,
          wrote |-> TRUE]

\* mutant of Imported: a differing name is an error like a differing version
ImportedStrictName(f, out) ==
    IF ~f.readable
    THEN [msg |-> ImportFailed(OpenError), warned |-> FALSE, wrote |-> FALSE]
    ELSE IF f.obj.type # "OnboardProfiles"
    THEN [msg |-> ImportFailed(FormatError), warned |-> FALSE, wrote |-> FALSE]
    ELSE IF GetVersion(f.obj) # OnboardProfilesVersion
    THEN [msg |-> ImportFailed(VersionError(GetVersion(f.obj))),
          warned |-> FALSE, wrote |-> FALSE]
    ELSE IF GetName(f.obj) # DeviceName
    THEN [msg |-> ImportFailed(<<"Profile device name differs">>),
          warned |-> TRUE, wrote |-> FALSE]
    ELSE [msg |-> IF out.raised THEN ImportFailed(WriteError)
                  ELSE ImportSuccessful(out.written),
          warned |-> FALSE,
          wrote |-> TRUE]

\* mutant of Imported: the version is checked before the type
ImportedVersionFirst(f, out) ==
    IF ~f.readable
    THEN [msg |-> ImportFailed(OpenError), warned |-> FALSE, wrote |-> FALSE]
    ELSE IF GetVersion(f.obj) # OnboardProfilesVersion
    THEN [msg |-> ImportFailed(VersionError(GetVersion(f.obj))),
          warned |-> FALSE, wrote |-> FALSE]
    ELSE IF f.obj.type # "OnboardProfiles"
    THEN [msg |-> ImportFailed(FormatError), warned |-> FALSE, wrote |-> FALSE]
    ELSE [msg |-> IF out.raised THEN ImportFailed(WriteError)
                  ELSE ImportSuccessful(out.written),
          warned |-> GetName(f.obj) # DeviceName,
          wrote |-> TRUE]

\* _do_import on file f, the write (when reached) ending as out: the message
\* handed to GLib.idle_add, whether the name warning was logged, whether
\* profiles.write(device) was called
Imported(f, out) ==
    IF ~f.readable
    THEN [msg |-> ImportFailed(OpenError), warned |-> FALSE, wrote |-> FALSE]
    ELSE IF f.obj.type # "OnboardProfiles"
    THEN [msg |-> ImportFailed(FormatError), warned |-> FALSE, wrote |-> FALSE]
    ELSE IF GetVersion(f.obj) # OnboardProfilesVersion
    THEN [msg |-> ImportFailed(VersionError(GetVersion(f.obj))),
          warned |-> FALSE, wrote |-> FALSE]
    ELSE [msg |-> IF out.raised THEN ImportFailed(WriteError)
                  ELSE ImportSuccessful(out.written),
          warned |-> GetName(f.obj) # DeviceName,
          wrote |-> TRUE]

\* the collection profiles.write(device) is called on: the loaded one
ImportTarget(f) == f.obj.profiles

\* a modal choice dialog run by a menu action, and whether its answer lets
\* the action go on
Chosen(by, accepted) == [by |-> by, accepted |-> accepted]

\* mutant of Refused: the collection is looked at before the connection
RefusedNullFirst ==
    IF ~hasProfiles THEN Msg("No Profiles", "WARNING", <<DeviceName>>)
    ELSE IF ~online THEN Msg("NO_DEVICE", "ERROR", <<DeviceName>>)
    ELSE NoMsg

\* the checks export_profiles, import_profiles and edit_profiles start with:
\* the message shown instead of going on, NoMsg when the action goes on
Refused ==
    IF ~online THEN Msg("NO_DEVICE", "ERROR", <<DeviceName>>)
    ELSE IF ~hasProfiles THEN Msg("No Profiles", "WARNING", <<DeviceName>>)
    ELSE NoMsg

\* action.import_profiles, up to and including the dispatch of _do_import
ImportProfiles == \E response \in ChooserResponses, filename \in ChooserFilenames :
    /\ MayActivate("import")
    /\ activations' = [activations EXCEPT !["import"] = @ + 1]
    /\ IF Refused # NoMsg
       THEN /\ msgs' = Append(msgs, Shown(Refused, "main"))
            /\ UNCHANGED <<taskQueue, choosers>>
       ELSE /\ choosers' = Append(choosers,
                                  Chosen("import", response = "OK" /\ filename # ""))
            /\ taskQueue' =
                IF response = "OK" /\ filename # ""
                THEN UiAsync(taskQueue, Task("do_import", NoMsg))
                ELSE taskQueue
            /\ UNCHANGED msgs
    /\ UNCHANGED <<deviceVars, profiles, editorVars, idleQueue, writes,
                   prompts, warnings, closes, edits, saves, accesses,
                   exported>>

\* mutant of RunDoImport: a successful import installs the imported
\* collection as the device's collection
RunDoImportReplaces == \E out \in WriteOutcomes :
    /\ taskQueue # <<>>
    /\ Head(taskQueue).task = "do_import"
    /\ LET r == Imported(file, out)
       IN /\ warnings' =
               IF r.warned
               THEN Append(warnings, <<GetName(file.obj), DeviceName>>)
               ELSE warnings
          /\ writes' =
               IF r.wrote
               THEN Append(writes,
                           WriteCall("import", "worker", out, ImportTarget(file)))
               ELSE writes
          /\ profiles' =
               IF r.wrote /\ ~out.raised THEN ImportTarget(file) ELSE profiles
          /\ idleQueue' = Append(idleQueue, r.msg)
    /\ accesses' = accesses \cup {Access("file", "read", "import", "worker")}
    /\ taskQueue' = Tail(taskQueue)
    /\ UNCHANGED <<deviceVars, editorVars, msgs, prompts, closes,
                   countVars, choosers, exported>>

\* _do_import on the task runner
RunDoImport == \E out \in WriteOutcomes :
    /\ taskQueue # <<>>
    /\ Head(taskQueue).task = "do_import"
    /\ LET r == Imported(file, out)
       IN /\ warnings' =
               IF r.warned
               THEN Append(warnings, <<GetName(file.obj), DeviceName>>)
               ELSE warnings
          /\ writes' =
               IF r.wrote
               THEN Append(writes,
                           WriteCall("import", "worker", out, ImportTarget(file)))
               ELSE writes
          /\ idleQueue' = Append(idleQueue, r.msg)
    /\ accesses' = accesses \cup {Access("file", "read", "import", "worker")}
    /\ taskQueue' = Tail(taskQueue)
    /\ UNCHANGED <<deviceVars, profiles, editorVars, msgs, prompts, closes,
                   countVars, choosers, exported>>

\* device.profiles: the object of the device's collection, made for this
\* device by this version of the program
DeviceProfiles ==
    [type |-> "OnboardProfiles", version |-> OnboardProfilesVersion,
     name |-> DeviceName, profiles |-> profiles]

\* mutant of Dumped: the mapping of records is dumped, not the object
DumpedMapping ==
    [readable |-> TRUE,
     obj |-> [type |-> "dict", version |-> None, name |-> Absent,
              profiles |-> profiles]]

\* the file after yaml.dump(device.profiles, f)
Dumped == [readable |-> TRUE, obj |-> DeviceProfiles]

\* action.export_profiles, up to and including the dispatch of _do_export
ExportProfiles == \E response \in ChooserResponses, filename \in ChooserFilenames :
    /\ MayActivate("export")
    /\ activations' = [activations EXCEPT !["export"] = @ + 1]
    /\ IF Refused # NoMsg
       THEN /\ msgs' = Append(msgs, Shown(Refused, "main"))
            /\ UNCHANGED <<taskQueue, choosers>>
       ELSE /\ choosers' = Append(choosers,
                                  Chosen("export", response = "OK" /\ filename # ""))
            /\ taskQueue' =
                IF response = "OK" /\ filename # ""
                THEN UiAsync(taskQueue, Task("do_export", NoMsg))
                ELSE taskQueue
            /\ UNCHANGED msgs
    /\ UNCHANGED <<deviceVars, profiles, editorVars, idleQueue, writes,
                   prompts, warnings, closes, edits, saves, accesses,
                   exported>>

\* _do_export on the task runner: open and dump, which can raise
RunDoExport == \E raised \in BOOLEAN :
    /\ taskQueue # <<>>
    /\ Head(taskQueue).task = "do_export"
    /\ IF raised
       THEN /\ idleQueue' = Append(idleQueue,
                 Msg("Export Failed", "ERROR",
                     <<"Failed to export profiles", "IOError">>))
            /\ accesses' = accesses \cup {Access("file", "write", "export", "worker")}
            /\ UNCHANGED <<file, exported>>
       ELSE /\ idleQueue' = Append(idleQueue,
                 Msg("Export Successful", "INFO",
                     <<"Successfully exported profiles to", "profiles.yaml">>))
            /\ file' = Dumped
            /\ exported' = [done |-> TRUE, profiles |-> profiles]
            /\ accesses' = accesses \cup
                  {Access("file", "write", "export", "worker"),
                   Access("profiles", "read", "export", "worker")}
    /\ taskQueue' = Tail(taskQueue)
    /\ UNCHANGED <<online, hasProfiles, paired, profiles, editorVars, msgs,
                   writes, prompts, warnings, closes, countVars, choosers>>

\* the main loop runs an idle callback: _show_message
RunIdle ==
    /\ idleQueue # <<>>
    /\ msgs' = Append(msgs, Shown(Head(idleQueue), "main"))
    /\ idleQueue' = Tail(idleQueue)
    /\ UNCHANGED <<deviceVars, profiles, editorVars, taskQueue, writes,
                   prompts, warnings, closes, countVars, traceVars>>

\* ------------------------------------------------------------- unpair
\* Gtk.ResponseType of the unpair question: its two buttons, or the
\* question closed without a choice
UnpairChoices == {"ACCEPT", "CANCEL", "DELETE_EVENT"}

\* mutant of Unpaired: the removal is made whatever the answer
UnpairedAlways(choice, raised) ==
    IF raised
    THEN [paired |-> paired,
          msgs |-> Append(msgs, Shown(Msg("UNPAIR", "ERROR", <<DeviceName>>), "main"))]
    ELSE [paired |-> FALSE, msgs |-> msgs]

\* unpair once the question is answered: whether the receiver still holds
\* the device, and the dialogs shown; raised tells whether the removal
\* (when made) raises
Unpaired(choice, raised) ==
    IF choice # "ACCEPT"
    THEN [paired |-> paired, msgs |-> msgs]
    ELSE IF raised
    THEN [paired |-> paired,
          msgs |-> Append(msgs, Shown(Msg("UNPAIR", "ERROR", <<DeviceName>>), "main"))]
    ELSE [paired |-> FALSE, msgs |-> msgs]

\* action.unpair
Unpair == \E choice \in UnpairChoices, raised \in BOOLEAN :
    /\ MayActivate("unpair")
    /\ activations' = [activations EXCEPT !["unpair"] = @ + 1]
    /\ choosers' = Append(choosers, Chosen("unpair", choice = "ACCEPT"))
    /\ LET u == Unpaired(choice, raised)
       IN /\ paired' = u.paired
          /\ msgs' = u.msgs
    /\ UNCHANGED <<online, hasProfiles, file, profiles, editorVars, queueVars,
                   writes, prompts, warnings, closes, edits, saves, accesses,
                   exported>>

NextTransfer ==
    \/ ImportProfiles
    \/ RunDoImport
    \/ ExportProfiles
    \/ RunDoExport
    \/ RunIdle
    \/ Unpair

\* export, import and unpair, with no editor open
SpecTransfer == Init /\ [][NextTransfer]_vars

\* export, import and an editor session of the shortest kind: one
\* field to edit, Save, Cancel
NextActions ==
    \/ EditProfiles
    \/ ToggleEnabled
    \/ OnSave
    \/ RunDoSave
    \/ RunShowMessage
    \/ RunDestroy
    \/ OnCancel
    \/ ImportProfiles
    \/ RunDoImport
    \/ ExportProfiles
    \/ RunDoExport
    \/ RunIdle

\* the file is the one the export makes
InitActions == Init /\ file = NoFile /\ DOMAIN profiles # {}

SpecActions == InitActions /\ [][NextActions]_vars

\* ----------------------------------------------- transfer properties
\* the import of the step is of a file that opened and parsed
Loaded == RunDoImport /\ file.readable

VersionMismatchPosted ==
    /\ idleQueue' = Append(idleQueue,
                      ImportFailed(<<"Profile version mismatch. Expected",
                                     DecStr(OnboardProfilesVersion), "got",
                                     StrOf(GetVersion(file.obj))>>))
    /\ writes' = writes

\* C1 as claimed: whenever the version field of the loaded object differs
\* from OnboardProfilesVersion, or is absent, the import posts the
\* version-mismatch error naming the expected and the actual value and
\* makes no write.
C1_Original ==
    [][(Loaded /\ file.obj.version # OnboardProfilesVersion)
        => VersionMismatchPosted]_vars

\* C1 as amended: whenever the loaded object is an OnboardProfiles whose
\* version differs from OnboardProfilesVersion, or is absent, the import
\* posts the version-mismatch error naming the expected and the actual
\* value and makes no write; an object of another type never has its
\* version looked at, and makes no write either.
C1_VersionMismatch ==
    [][ /\ (Loaded /\ file.obj.type = "OnboardProfiles"
                   /\ file.obj.version # OnboardProfilesVersion)
           => VersionMismatchPosted
        /\ (Loaded /\ file.obj.version # OnboardProfilesVersion)
           => writes' = writes ]_vars

\* C1 witness: an OnboardProfiles file of the previous version was imported;
\* the mismatch message was shown and nothing was written.
C1_Witness ==
    /\ file.readable
    /\ file.obj.type = "OnboardProfiles"
    /\ file.obj.version = OnboardProfilesVersion - 1
    /\ writes = <<>>
    /\ \E i \in 1..Len(msgs) :
          /\ msgs[i].title = "Import Failed"
          /\ msgs[i].text =
               <<"Failed to import profiles",
                 "Profile version mismatch. Expected", "3", "got", "2">>

\* C2: for a loaded OnboardProfiles of the expected version whose name
\* differs from the device's, the import logs the warning, calls
\* profiles.write(device) and posts what the write decides: the success
\* message when it returns, "Import Failed" only when the write itself
\* raises.
C2_NameMismatchWarns ==
    [][(Loaded /\ file.obj.type = "OnboardProfiles"
               /\ file.obj.version = OnboardProfilesVersion
               /\ file.obj.name # DeviceName)
        => /\ warnings' = Append(warnings, <<file.obj.name, DeviceName>>)
           /\ Len(writes') = Len(writes) + 1
           /\ LET w == writes'[Len(writes')]
              IN /\ w.by = "import"
                 /\ w.obj = file.obj.profiles
                 /\ idleQueue' =
                      Append(idleQueue,
                             IF w.raised THEN ImportFailed(WriteError)
                             ELSE ImportSuccessful(2))]_vars

\* C2 witness: a file named for another device was imported: the warning
\* was logged, the write was made and the success message was shown.
C2_Witness ==
    /\ file.readable
    /\ file.obj.name = "MX Master"
    /\ warnings = << <<"MX Master", DeviceName>> >>
    /\ Len(writes) = 1
    /\ ~writes[1].raised
    /\ \E i \in 1..Len(msgs) : msgs[i].title = "Import Successful"

\* ------------------------------------------------- editor properties
\* the result messages of Save among the messages shown
SaveMsgs == SelectSeq(msgs, LAMBDA m : m.title \in {"Success", "Error"})

\* how many elements of a sequence satisfy a test
Count(seq, Test(_)) == Cardinality({i \in 1..Len(seq) : Test(seq[i])})

SaveWrites == Count(writes, LAMBDA w : w.by = "save")
OkSaveWrites == Count(writes, LAMBDA w : w.by = "save" /\ ~w.raised)
SaveCloses == Count(closes, LAMBDA c : c.by = "save")
UserCloses == Count(closes, LAMBDA c : c.by \in {"cancel", "delete"})

\* C3: a field-change event received while no load is in progress sets
\* modified and enables the save button, whatever they were before: every
\* user edit, the first and the later ones, ends with modified true and the
\* save button sensitive.
C3_EditSetsModified ==
    [][(edits' # edits /\ ignore_changes = 0)
        => (modified' /\ save_sensitive')]_vars

\* C3 witness: a second edit has been made, the form is still dirty.
C3_Witness ==
    dialog = "open" /\ edits >= 2 /\ modified /\ save_sensitive
    /\ ignore_changes = 0

\* C4: a selection in the list (by the user, of the same row or another
\* one) leaves modified and the save button's sensitivity as they were,
\* and the automatic selection made when the dialog is built leaves the
\* new dialog clean.
C4_SelectionKeepsModified ==
    [][ /\ SelectProfile
           => (modified' = modified /\ save_sensitive' = save_sensitive)
        /\ (EditProfiles /\ dialog' = "open")
           => (~modified' /\ ~save_sensitive') ]_vars

\* C4 witness: the second profile was selected in a clean dialog; its
\* fields replaced those of the first and the dialog is still clean.
C4_Witness ==
    /\ dialog = "open"
    /\ current_profile_num = 2
    /\ form.name_entry = ProfileB.name
    /\ ~modified
    /\ ~save_sensitive

\* C5: Cancel activated while modified is false closes the dialog at once,
\* without a discard prompt.
C5_CancelCleanCloses ==
    [][\A a \in Responses :
          (OnCancelWith(a) /\ ~modified)
          => (dialog' = "destroyed" /\ prompts' = prompts)]_vars

\* C5 witness: a clean dialog closed by Cancel, no prompt ever shown.
C5_Witness ==
    /\ dialog = "destroyed"
    /\ ~modified
    /\ prompts = 0
    /\ closes = << [by |-> "cancel", thread |-> "main"] >>

\* C6: Cancel activated while modified is true shows the discard prompt;
\* any answer but Yes leaves the dialog open and the editor state (flags,
\* selection, fields, records, list rows) as it was; Yes closes the dialog.
C6_CancelDirtyAsks ==
    [][\A a \in Responses :
          (OnCancelWith(a) /\ modified)
          => /\ prompts' = prompts + 1
             /\ a # "YES"
                => /\ dialog' = "open"
                   /\ UNCHANGED <<modified, save_sensitive, ignore_changes,
                                  current_profile_num, form, profiles,
                                  profile_store>>
             /\ a = "YES" => dialog' = "destroyed"]_vars

\* C6 witness: the prompt was shown for a dirty dialog and declined; the
\* dialog is still open and dirty.
C6_Witness ==
    dialog = "open" /\ modified /\ prompts = 1 /\ closes = <<>>

\* C7: the delete-event does what Cancel does: for every answer to the
\* prompt it ends with the dialog, the prompts and the rest of the editor
\* state that Cancel would end with, and no destroy() is ever made by the
\* toolkit's own handling of the event.
C7_DeleteIsCancel ==
    [][\A a \in Responses :
          OnDeleteWith(a)
          => LET c == Cancelled(a, "cancel")
             IN /\ dialog' = c.dialog
                /\ prompts' = c.prompts
                /\ Len(closes') = Len(c.closes)
                /\ \A i \in 1..Len(closes') : closes'[i].by # "toolkit"
                /\ UNCHANGED <<modified, save_sensitive, ignore_changes,
                               current_profile_num, form, profiles,
                               profile_store, taskQueue, msgs, writes>>]_vars

\* C7 witness: a dirty dialog closed through the window-close button after
\* the prompt was answered Yes.
C7_Witness ==
    /\ dialog = "destroyed"
    /\ modified
    /\ prompts = 1
    /\ closes = << [by |-> "delete", thread |-> "main"] >>

\* C8: Save stores the displayed fields in the record of the selected
\* profile and updates its list row in the step that dispatches the write,
\* so before any write of that Save is made; the stored name has at most 24
\* characters, the 5 stored resolutions lie in [100, 25600] and the stored
\* default and shift indices lie in [0, 5).
C8_SaveStoresFields ==
    /\ [][(OnSave /\ current_profile_num # None)
          => LET p == profiles'[current_profile_num]
             IN /\ p.name = form.name_entry
                /\ p.enabled = (IF form.enabled_switch THEN 1 ELSE 0)
                /\ p.resolutions = form.dpi_spinners
                /\ p.resolution_default_index \in Indices
                /\ p.resolution_shift_index \in Indices
                /\ form.default_radios[p.resolution_default_index + 1]
                /\ form.shift_radios[p.resolution_shift_index + 1]
                /\ \E r \in 1..Len(profile_store') :
                      profile_store'[r] = Row(current_profile_num, p)
                /\ Len(p.name) <= NameMaxLength
                /\ Len(p.resolutions) = NumResolutions
                /\ \A i \in 1..NumResolutions :
                      DpiLower <= p.resolutions[i] /\ p.resolutions[i] <= DpiUpper
                /\ writes' = writes
                /\ taskQueue' = Append(taskQueue, Task("do_save", NoMsg))]_vars
    /\ [](SaveWrites <= saves)

\* C8 witness: the second profile, whose record held DPI values outside the
\* spinner's range, has been saved and no write has been made yet.
C8_Witness ==
    /\ saves = 1
    /\ writes = <<>>
    /\ current_profile_num = 2
    /\ profiles[2].resolutions[1] = DpiLower
    /\ profiles[2].resolutions[NumResolutions] = DpiUpper

C10_Original ==
    (dialog = "open" /\ current_profile_num # None)
    => (modified <=> form # snapshot)

\* C10 as amended: in an open dialog, whenever a displayed field differs from
\* what the form showed after the last load or save, modified is true (the
\* converse does not hold).
C10_DirtyWhenDifferent ==
    (dialog = "open" /\ current_profile_num # None /\ form # snapshot)
    => modified

\* C10 witness: a displayed field differs from the loaded values and the
\* dialog is dirty.
C10_Witness ==
    /\ dialog = "open"
    /\ current_profile_num # None
    /\ form # snapshot
    /\ modified

\* C11 as claimed: loading a profile whose default (or shift) index lies
\* outside [0, 5) leaves no radio of that group active, and a Save made
\* with the radios of that group as the load left them keeps the record's
\* index at its loaded value.
C11_OutOfRangeKept ==
    /\ [][\A r \in 1..Len(profile_store) :
            LET p == profiles[profile_store[r].num]
            IN (SelectProfile /\ current_profile_num' = profile_store[r].num)
               => /\ p.resolution_default_index \notin Indices
                     => \A i \in 1..NumResolutions : ~form'.default_radios[i]
                  /\ p.resolution_shift_index \notin Indices
                     => \A i \in 1..NumResolutions : ~form'.shift_radios[i]]_vars
    /\ [][(OnSave /\ current_profile_num # None)
          => LET p == profiles[current_profile_num]
                 q == profiles'[current_profile_num]
             IN /\ (p.resolution_default_index \notin Indices
                     /\ form.default_radios = snapshot.default_radios)
                    => q.resolution_default_index = p.resolution_default_index
                /\ (p.resolution_shift_index \notin Indices
                     /\ form.shift_radios = snapshot.shift_radios)
                    => q.resolution_shift_index = p.resolution_shift_index]_vars

\* ------------------------------------------------- action properties
\* the activation of the step is of menu action a
Activates(a) == activations'[a] = activations[a] + 1

\* nothing but a message: no chooser, no task, no file or collection
\* access, no editor, no write
OnlyMessage(title, kind) ==
    /\ Len(msgs') = Len(msgs) + 1
    /\ msgs'[Len(msgs')].title = title
    /\ msgs'[Len(msgs')].kind = kind
    /\ msgs'[Len(msgs')].thread = "main"
    /\ UNCHANGED <<choosers, taskQueue, idleQueue, file, accesses, writes,
                   dialog, profiles>>

\* C12: export_profiles, import_profiles and edit_profiles go on only for
\* a device that is online and has a collection: for an offline device
\* (with or without a collection) the NO_DEVICE error is shown, for an
\* online device without a collection the 'No Profiles' warning, and in
\* both cases nothing else happens, then or later in the run: no chooser,
\* no file access, no editor, no write.  Otherwise no message is shown and
\* the chooser is run or the editor opened.
C12_GuardedActions ==
    /\ [][\A a \in {"edit", "export", "import"} :
            Activates(a)
            => /\ ~online => OnlyMessage("NO_DEVICE", "ERROR")
               /\ (online /\ ~hasProfiles) => OnlyMessage("No Profiles", "WARNING")
               /\ (online /\ hasProfiles)
                  => /\ msgs' = msgs
                     /\ a = "edit" => dialog' = "open"
                     /\ a # "edit" => Len(choosers') = Len(choosers) + 1]_vars
    /\ []((~online \/ ~hasProfiles)
          => /\ choosers = <<>>
             /\ writes = <<>>
             /\ accesses = {}
             /\ dialog = "none"
             /\ file = NoFile
             /\ taskQueue = <<>>)

\* C12 witness: a device that is offline and has no collection either: two
\* actions were refused, each with the NO_DEVICE error.
C12_Witness ==
    /\ ~online
    /\ ~hasProfiles
    /\ Len(msgs) = 2
    /\ msgs[1].title = "NO_DEVICE"
    /\ msgs[2].title = "NO_DEVICE"
    /\ activations["import"] = 1

\* the result messages of the transfers among the messages shown
ImportMsgs == SelectSeq(msgs, LAMBDA m : m.title \in {"Import Successful", "Import Failed"})
ExportMsgs == SelectSeq(msgs, LAMBDA m : m.title \in {"Export Successful", "Export Failed"})
Confirmed(by) == Count(choosers, LAMBDA c : c.by = by /\ c.accepted)
Pending(task) == Count(taskQueue, LAMBDA t : t.task = task)
Posted(titles) == Count(idleQueue, LAMBDA m : m.title \in titles)
ImportWrites == Count(writes, LAMBDA w : w.by = "import")

\* C13: every import and export confirmed with a file name ends with one
\* result message.  The import posts the success message exactly when the
\* file opened and parsed, the object is an OnboardProfiles of the expected
\* version and the write returned; otherwise it posts 'Import Failed', with
\* the format error for an object of another type whatever its version.
\* The export posts the success message with the file written, or 'Export
\* Failed' with the file as it was.  Each task run posts its one message
\* (nothing escapes it), each posted message is shown once, and a chooser
\* that was cancelled changes nothing.
C13_OneResult ==
    /\ [][RunDoImport
          => /\ Len(idleQueue') = Len(idleQueue) + 1
             /\ LET m == idleQueue'[Len(idleQueue')]
                    ok == /\ file.readable
                          /\ file.obj.type = "OnboardProfiles"
                          /\ file.obj.version = OnboardProfilesVersion
                          /\ Len(writes') = Len(writes) + 1
                          /\ ~writes'[Len(writes')].raised
                IN /\ m.title = (IF ok THEN "Import Successful" ELSE "Import Failed")
                   /\ m.kind = (IF ok THEN "INFO" ELSE "ERROR")
                   /\ (file.readable /\ file.obj.type # "OnboardProfiles")
                      => /\ m.text = <<"Failed to import profiles",
                                       "Invalid profiles file format">>
                         /\ writes' = writes]_vars
    /\ [][RunDoExport
          => /\ Len(idleQueue') = Len(idleQueue) + 1
             /\ LET m == idleQueue'[Len(idleQueue')]
                IN \/ m.title = "Export Successful" /\ m.kind = "INFO"
                      /\ file' = [readable |-> TRUE, obj |-> DeviceProfiles]
                   \/ m.title = "Export Failed" /\ m.kind = "ERROR"
                      /\ file' = file]_vars
    /\ [][RunIdle => /\ Len(msgs') = Len(msgs) + 1
                     /\ msgs'[Len(msgs')].title = Head(idleQueue).title]_vars
    /\ [][(Len(choosers') = Len(choosers) + 1
           /\ ~choosers'[Len(choosers')].accepted)
          => UNCHANGED <<msgs, taskQueue, idleQueue, file, writes, accesses>>]_vars
    /\ [](/\ Confirmed("import") =
               Pending("do_import")
               + Posted({"Import Successful", "Import Failed"})
               + Len(ImportMsgs)
          /\ Confirmed("export") =
               Pending("do_export")
               + Posted({"Export Successful", "Export Failed"})
               + Len(ExportMsgs))

\* C13 witness: a plain mapping that carries the expected version was
\* imported and reported with the format error, and nothing is left to run.
C13_Witness ==
    /\ file.readable
    /\ file.obj.type = "dict"
    /\ file.obj.version = OnboardProfilesVersion
    /\ Confirmed("import") = 1
    /\ taskQueue = <<>>
    /\ idleQueue = <<>>
    /\ Len(ImportMsgs) = 1
    /\ ImportMsgs[1].text = <<"Failed to import profiles", "Invalid profiles file format">>
    /\ writes = <<>>

\* C14: every profiles.write(device) and every file access is made on the
\* task runner's thread, in a step of a dispatched task (_do_save,
\* _do_import, _do_export), never in a handler of the main loop.
C14_WritesOffMain ==
    /\ [](/\ \A i \in 1..Len(writes) : writes[i].thread = "worker"
          /\ \A a \in accesses :
                (a.what = "file" \/ a.op = "write") => a.thread = "worker")
    /\ [][writes' # writes => (RunDoSave \/ RunDoImport)]_vars
    /\ [][file' # file => RunDoExport]_vars

\* C14 witness: the editor's Save and an export have both run: the write
\* and the file access were made by the task runner.
C14_Witness ==
    /\ Len(writes) = 1
    /\ writes[1].by = "save"
    /\ writes[1].thread = "worker"
    /\ Access("file", "write", "export", "worker") \in accesses
    /\ file.readable

\* C15 as claimed: every result dialog and every closing of the editor is
\* made on the main loop's thread.
C15_ResultsOnMain ==
    /\ \A i \in 1..Len(msgs) : msgs[i].thread = "main"
    /\ \A i \in 1..Len(closes) : closes[i].thread = "main"

\* C16 as claimed: off the main thread the device's collection is only
\* ever written to the device, never read or modified.
C16_CollectionOnMain ==
    \A a \in accesses :
        (a.what = "profiles" /\ a.thread # "main") => a.op = "write"

\* C17: every Save activated has its one write made or still dispatched,
\* whatever the write's outcome and whatever became of the dialog; every
\* confirmed import has at most one write made; Cancel takes no dispatched
\* task away.
C17_OneWritePerSave ==
    /\ [](/\ SaveWrites + Pending("do_save") = saves
          /\ ImportWrites + Pending("do_import") <= Confirmed("import"))
    /\ [][OnCancel => taskQueue' = taskQueue]_vars

\* C17 witness: the dialog was closed by Cancel; the write of the Save made
\* before has run all the same, returned and had the dialog closed again.
C17_Witness ==
    /\ saves = 1
    /\ SaveWrites = 1
    /\ Len(closes) = 2
    /\ closes[1].by = "cancel"
    /\ closes[2].by = "save"
    /\ taskQueue = <<>>

\* the lowest key of the collection
FirstNum == CHOOSE n \in DOMAIN profiles : \A m \in DOMAIN profiles : n <= m

\* the form shows record p: its name and enabled flag, its DPI values as
\* the spinners hold them, a radio on each index that lies in [0, 5)
Shows(f, p) ==
    /\ f.name_entry = p.name
    /\ f.enabled_switch = (p.enabled # 0)
    /\ \A i \in 1..NumResolutions :
          f.dpi_spinners[i] =
            (IF p.resolutions[i] < DpiLower THEN DpiLower
             ELSE IF p.resolutions[i] > DpiUpper THEN DpiUpper
             ELSE p.resolutions[i])
    /\ p.resolution_default_index \in Indices
       => f.default_radios[p.resolution_default_index + 1]
    /\ p.resolution_shift_index \in Indices
       => f.shift_radios[p.resolution_shift_index + 1]

C19_UnpairConfirmed ==
    [][Unpair
       => LET c == choosers'[Len(choosers')]
          IN /\ Len(choosers') = Len(choosers) + 1
             /\ c.by = "unpair"
             /\ ~c.accepted => (paired' = paired /\ msgs' = msgs)
             /\ paired' # paired => (c.accepted /\ msgs' = msgs)
             /\ paired' = paired
                => \/ msgs' = msgs /\ ~c.accepted
                   \/ /\ c.accepted
                      /\ msgs' = Append(msgs, Shown(Msg("UNPAIR", "ERROR",
                                                       <<DeviceName>>), "main"))]_vars

\* C19 witness: the question was answered with Unpair and the device is gone.
C19_Witness ==
    /\ ~paired
    /\ Len(choosers) >= 1
    /\ choosers[Len(choosers)] = Chosen("unpair", TRUE)
    /\ msgs = <<>>

\* the records a and b agree in the fields the editor handles
SameRecord(a, b) ==
    /\ a.name = b.name
    /\ a.enabled = b.enabled
    /\ a.resolutions = b.resolutions
    /\ a.resolution_default_index = b.resolution_default_index
    /\ a.resolution_shift_index = b.resolution_shift_index

C21_SaveIffModified ==
    /\ [](dialog # "none" => (save_sensitive <=> modified))
    /\ [][(dialog # "none" /\ dialog' # "none" /\ modified) => modified']_vars

\* a Save whose write failed left the dialog open on another profile than
\* the first, the form equal to what was last loaded or stored, and the
\* editor still modified with the save button sensitive
C21_Witness ==
    /\ dialog = "open"
    /\ saves = 1
    /\ Len(writes) = 1
    /\ writes[1].raised
    /\ taskQueue = <<>>
    /\ current_profile_num = 2
    /\ modified
    /\ save_sensitive

\* only a Save with a selected profile changes device.profiles.profiles, and
\* it changes no record but the selected one
OnlySaveModifies ==
    [][profiles' # profiles
       => /\ OnSave
          /\ current_profile_num # None
          /\ DOMAIN profiles' = DOMAIN profiles
          /\ \A n \in DOMAIN profiles \ {current_profile_num} :
                profiles'[n] = profiles[n]]_vars

\* a selection leaves of the form nothing that the user edited since the
\* last load or Save: the form is what loading the selected record into the
\* form as last loaded or stored gives
SelectionOverwritesEdits ==
    [][SelectProfile
       => form' = Populate(snapshot, profiles[current_profile_num'])]_vars

\* C22 as claimed: records are modified only by Save and only the selected
\* one (field edits, selection and Cancel leave every record unchanged), and
\* edits made to one profile are overwritten in the form by the selection
\* of another, so that they are not part of what a later Save stores.
C22_SaveOnlySelected ==
    /\ OnlySaveModifies
    /\ SelectionOverwritesEdits

\* C23: import_profiles and its task leave device.profiles as it was, the
\* same collection with the same records, whether the import succeeds or
\* fails; the imported collection is the object of the one write call the
\* task makes and of nothing else, and the import never reads or modifies
\* the device's collection
C23_ImportKeepsProfiles ==
    /\ [][(ImportProfiles \/ RunDoImport)
          => /\ profiles' = profiles
             /\ hasProfiles' = hasProfiles
             /\ exported' = exported]_vars
    /\ [][RunDoImport
          => /\ Len(writes') <= Len(writes) + 1
             /\ Len(writes') = Len(writes) + 1
                  => /\ writes'[Len(writes')].by = "import"
                     /\ writes'[Len(writes')].obj = file.obj.profiles]_vars
    /\ [](\A a \in accesses : a.by = "import" => a.what = "file")

\* an import that succeeded with a collection other than the device's: its
\* message was shown and the device's two records are as they were
C23_Witness ==
    /\ DOMAIN profiles = {1, 2}
    /\ profiles[1] = ProfileA
    /\ profiles[2] = ProfileB
    /\ ImportWrites = 1
    /\ ~writes[1].raised
    /\ writes[1].obj # profiles
    /\ idleQueue = <<>>
    /\ Len(ImportMsgs) = 1
    /\ ImportMsgs[1].title = "Import Successful"

====
